---- MODULE Spec2Model ----
(***************************************************************************)
(* Model of locate_vat.py: the normalizer, the per-country format          *)
(* validator, the circuit-protected VIES check, the Axesor fallback check  *)
(* and the per-line resolution loop of locate_vax_number.                  *)
(*                                                                         *)
(* Text is modelled as sequences of one-character strings, so that         *)
(* normalize, the regular expressions and the written rows are computed    *)
(* on the characters as the code computes them.                            *)
(***************************************************************************)
EXTENDS Integers, Sequences, FiniteSets, TLC

VARIABLES
    lines,       \* reader.readlines(): the input lines, fixed for a run
    idx,         \* number of lines the for-loop has finished
    pc,          \* position of locate_vax_number
    vat_number,  \* the loop's local: normalize(line) of the current line
    output,      \* the rows written to the output file, in order
    breaker,     \* state of the circuit decorating vies_validation
    now,         \* the clock read by the circuit (seconds)
    calls,       \* history: the remote and fallback calls of the run
    crashed_by,  \* history: the function whose exception ended the run
    last,        \* history: the latest call of vies_validation
    consec_fail, \* history: consecutive VIES transport/service failures
    invalid_run, \* history: consecutive valid = false answers of VIES
    ncalls,      \* history: calls made by the direct caller of the checker
    pure         \* normalize and validate applied on their own to one input

vars == <<lines, idx, pc, vat_number, output, breaker, now, calls,
          crashed_by, last, consec_fail, invalid_run, ncalls, pure>>

-----------------------------------------------------------------------------
(* Bounds of the model *)

MaxLines == 2
MaxTime == 15
TickStep == 5
MaxCalls == 7
MaxStrLen == 3

-----------------------------------------------------------------------------
(* Characters *)

Digits == {"0", "1", "2", "3", "4", "5", "6", "7", "8", "9"}

LowerCase == <<"a", "b", "c", "d", "e", "f", "g", "h", "i", "j", "k", "l", "m",
               "n", "o", "p", "q", "r", "s", "t", "u", "v", "w", "x", "y", "z">>

UpperCase == <<"A", "B", "C", "D", "E", "F", "G", "H", "I", "J", "K", "L", "M",
               "N", "O", "P", "Q", "R", "S", "T", "U", "V", "W", "X", "Y", "Z">>

Range(f) == {f[i] : i \in DOMAIN f}

IsLower(ch) == ch \in Range(LowerCase)

\* str.upper() on one character
UpperChar(ch) ==
    IF IsLower(ch)
    THEN UpperCase[CHOOSE i \in DOMAIN LowerCase : LowerCase[i] = ch]
    ELSE ch

\* the characters \w matches
WordChars == Digits \cup Range(LowerCase) \cup Range(UpperCase) \cup {"_"}

-----------------------------------------------------------------------------
(* normalize *)

RECURSIVE rstrip(_, _)
rstrip(s, ch) ==
    IF s # <<>> /\ s[Len(s)] = ch
    THEN rstrip(SubSeq(s, 1, Len(s) - 1), ch)
    ELSE s

\* str.replace(old, '') for a one-character old
remove(s, old) == SelectSeq(s, LAMBDA ch : ch # old)

upper(s) == [i \in 1..Len(s) |-> UpperChar(s[i])]

\* variant of normalize: the spaces are kept
normalize_KeepsSpaces(raw) == upper(remove(rstrip(raw, "\n"), "*"))

normalize(raw) == upper(remove(remove(rstrip(raw, "\n"), " "), "*"))

-----------------------------------------------------------------------------
(* Validator.validate: the registry of patterns and re.match *)

\* A pattern is a set of alternatives; an alternative is a sequence of
\* tokens [cls, lo, hi]: between lo and hi characters of the class cls.
\* A class is \d, \w, [\w\d], [\d\w\+\*] or one literal character.
InClass(ch, cls) ==
    CASE cls = "\\d" -> ch \in Digits
      [] cls = "\\w" -> ch \in WordChars
      [] cls = "[\\w\\d]" -> ch \in WordChars \cup Digits
      [] cls = "[\\d\\w\\+\\*]" -> ch \in Digits \cup WordChars \cup {"+", "*"}
      [] OTHER -> ch = cls

Tok(cls, lo, hi) == [cls |-> cls, lo |-> lo, hi |-> hi]
L(ch) == Tok(ch, 1, 1)
D(n) == Tok("\\d", n, n)
W(n) == Tok("\\w", n, n)
WD(n) == Tok("[\\w\\d]", n, n)
SP == Tok(" ", 1, 1)

\* pattern.match(s) for one alternative written ^...$: anchored at the
\* start; $ matches at the end and just before a newline that ends s
RECURSIVE MatchTokens(_, _)
MatchTokens(s, toks) ==
    IF toks = <<>>
    THEN s = <<>> \/ s = <<"\n">>
    ELSE LET t == Head(toks)
         IN  \E k \in t.lo..t.hi :
                /\ k <= Len(s)
                /\ \A i \in 1..k : InClass(s[i], t.cls)
                /\ MatchTokens(SubSeq(s, k + 1, Len(s)), Tail(toks))

Match(s, pattern) == \E alt \in pattern : MatchTokens(s, alt)

vat_number_regexps ==
    [AT |-> {<<L("A"), L("T"), L("U"), D(8)>>},
     BE |-> {<<L("B"), L("E"), L("0"), D(9)>>},
     BG |-> {<<L("B"), L("G"), Tok("\\d", 9, 10)>>},
     CY |-> {<<L("C"), L("Y"), D(8), W(1)>>},
     CZ |-> {<<L("C"), L("Z"), Tok("\\d", 8, 10)>>},
     DE |-> {<<L("D"), L("E"), D(9)>>},
     DK |-> {<<L("D"), L("K"), D(2), SP, D(2), SP, D(2), SP, D(2)>>},
     EE |-> {<<L("E"), L("E"), D(9)>>},
     EL |-> {<<L("E"), L("L"), D(9)>>},
     ES |-> {<<L("E"), L("S"), WD(1), D(7), WD(1)>>},
     FI |-> {<<L("F"), L("I"), D(8)>>},
     FR |-> {<<L("F"), L("R"), WD(2), SP, D(9)>>},
     GB |-> {<<L("G"), L("B"), D(3), SP, D(4), SP, D(2)>>,
             <<L("G"), L("B"), D(3), SP, D(4), SP, D(2), SP, D(3)>>,
             <<L("G"), L("B"), L("G"), L("D"), D(3)>>,
             <<L("G"), L("B"), L("H"), L("A"), D(3)>>},
     HR |-> {<<L("H"), L("R"), D(11)>>},
     HU |-> {<<L("H"), L("U"), D(8)>>},
     IE |-> {<<L("I"), L("E"), D(1), Tok("[\\d\\w\\+\\*]", 1, 1), D(5), W(1)>>,
             <<L("I"), L("E"), D(7), L("W"), L("I")>>},
     IT |-> {<<L("I"), L("T"), D(11)>>},
     LT |-> {<<L("L"), L("T"), Tok("\\d", 9, 12)>>},
     LU |-> {<<L("L"), L("U"), D(8)>>},
     LV |-> {<<L("L"), L("V"), D(11)>>},
     MT |-> {<<L("M"), L("T"), D(8)>>},
     NL |-> {<<L("N"), L("L"), D(9), L("B"), D(2)>>},
     PL |-> {<<L("P"), L("L"), D(10)>>},
     PT |-> {<<L("P"), L("T"), D(9)>>},
     RO |-> {<<L("R"), L("O"), Tok("\\d", 2, 10)>>},
     SE |-> {<<L("S"), L("E"), D(12)>>},
     SI |-> {<<L("S"), L("I"), D(8)>>},
     SK |-> {<<L("S"), L("K"), D(10)>>}]

\* What a call leaves its caller with: a returned value or a raised exception
Return(v) == [kind |-> "return", value |-> v]
Raise(e) == [kind |-> "raise", exc |-> e]

\* variant of validate: a code without a rule is answered like a mismatch
validate_DefaultFalse(vat, vat_country_code) ==
    IF vat_country_code \in DOMAIN vat_number_regexps
    THEN Return(Match(vat, vat_number_regexps[vat_country_code]))
    ELSE Return(FALSE)

\* value TRUE stands for a match object, FALSE for None
validate(vat, vat_country_code) ==
    IF vat_country_code \in DOMAIN vat_number_regexps
    THEN Return(Match(vat, vat_number_regexps[vat_country_code]))
    ELSE Raise("KeyError")

-----------------------------------------------------------------------------
(* vies_validation behind @circuit(failure_threshold=5, recovery_timeout=10, *)
(* expected_exception=HTTPError)                                             *)

FAILURE_THRESHOLD == 5
RECOVERY_TIMEOUT == 10

\* the exception class the circuit counts as a failure: this module's HTTPError
expected_exception == "HTTPError"

\* What the VIES web service can do with one request: answer valid = true,
\* answer valid = false, or fail at the transport/service level
ViesResponses == {"valid", "invalid", "fault"}

\* variant of ViesBody: a valid = false answer is raised as HTTPError
ViesBody_InvalidRaises(resp) ==
    CASE resp = "valid" -> Return(TRUE)
      [] resp = "invalid" -> Raise("HTTPError")
      [] OTHER -> Raise("ViesHTTPError")

\* The decorated body: api.Vies().request(...) and `return result_vies.valid`.
\* A failed request leaves pyVies as one of pyVies' own exceptions; the body
\* raises nothing itself.
ViesBody(resp) ==
    CASE resp = "valid" -> Return(TRUE)
      [] resp = "invalid" -> Return(FALSE)
      [] OTHER -> Raise("ViesHTTPError")

\* does the circuit count this exception as a failure of the call
is_failure(exc) == exc = expected_exception

BreakerInit == [state |-> "closed", failure_count |-> 0, opened |-> 0]

\* the state the circuit reports at time t: a stored OPEN reads as HALF_OPEN
\* once the recovery timeout has elapsed since it opened
BreakerState(b, t) ==
    IF b.state = "open" /\ (b.opened + RECOVERY_TIMEOUT) - t <= 0
    THEN "half_open"
    ELSE b.state

call_succeeded(b) == [b EXCEPT !.state = "closed", !.failure_count = 0]

call_failed(b, t) ==
    LET n == b.failure_count + 1
    IN  IF n >= FAILURE_THRESHOLD
        THEN [state |-> "open", failure_count |-> n, opened |-> t]
        ELSE [b EXCEPT !.failure_count = n]

\* One call of the decorated vies_validation at time t, the service doing
\* resp: the circuit after the call, what the caller gets, and whether the
\* service was contacted.
vies_validation(b, t, resp) ==
    IF BreakerState(b, t) = "open"
    THEN [breaker |-> b, out |-> Raise("CircuitBreakerError"),
          contacted |-> FALSE]
    ELSE LET r == ViesBody(resp)
         IN  [breaker |-> IF r.kind = "raise" /\ is_failure(r.exc)
                          THEN call_failed(b, t)
                          ELSE call_succeeded(b),
              out |-> r,
              contacted |-> TRUE]

-----------------------------------------------------------------------------
(* axesor_validation *)

\* status codes the Axesor form can answer the GET with
Statuses == {200, 301, 302, 404, 500}

\* variant of axesor_validation: every status but 200 is read as a redirect
axesor_validation_AnyRedirect(status_code) ==
    IF status_code = 200 THEN Return(FALSE) ELSE Return(TRUE)

axesor_validation(status_code) ==
    IF status_code = 200 THEN Return(FALSE)
    ELSE IF status_code = 302 THEN Return(TRUE)
    ELSE Raise("HTTPError")

-----------------------------------------------------------------------------
(* locate_vax_number *)

error_msg == <<"N", "o", "t", " ", "F", "o", "u", "n", "d">>

\* variant of CountryChars: the United Kingdom is written UK
CountryChars_UK == [ES |-> <<"E", "S">>, GB |-> <<"U", "K">>, DE |-> <<"D", "E">>]

CountryChars == [ES |-> <<"E", "S">>, GB |-> <<"G", "B">>, DE |-> <<"D", "E">>]

\* variant of Row: the identifier is written with its country prefix
Row_Prefixed(vat, country, error) ==
    country \o vat \o <<",">> \o country \o <<",">> \o error \o <<"\n">>

\* f"{vat_number},{country},{error}\n"
Row(vat, country, error) ==
    vat \o <<",">> \o country \o <<",">> \o error \o <<"\n">>

\* variant of EsFallbackRow: the fallback's answer is read the wrong way round
EsFallbackRow_Swapped(vat, found) ==
    IF found = TRUE
    THEN Row(vat, CountryChars.ES, error_msg)
    ELSE Row(vat, CountryChars.ES, <<>>)

\* lines 144-147: the row of a Spanish number VIES did not confirm
EsFallbackRow(vat, found) ==
    IF found = TRUE
    THEN Row(vat, CountryChars.ES, <<>>)
    ELSE Row(vat, CountryChars.ES, error_msg)

\* variant of NotFoundRow: the last candidate country is kept in the row
NotFoundRow_KeepsCountry(vat) == Row(vat, CountryChars.DE, error_msg)

\* line 155: the row of a number no country accepted
NotFoundRow(vat) == Row(vat, <<>>, error_msg)

\* Input lines of the runs: as readlines() returns them, without an inner
\* newline and with at most one newline at the end
SampleLines ==
    { <<"b", "1", "2", "3", "4", " ", "5", "6", "7", "8", "\n">>,
      <<"*", "X", "1", "2", "3", "4", "5", "6", "7", "L">>,
      <<"G", "B", "G", "D", "0", "0", "1", "\n">>,
      <<"G", "B", "1", "2", "3", " ", "4", "5", "6", "7", " ", "8", "9", "\n">>,
      <<"G", "B", "1", "2", "3", "4", "5", "6", "7", "8", "9", "\n">>,
      <<"D", "E", "1", "2", "3", "4", "5", "6", "7", "8", "9", "\n">>,
      <<"\n">> }

Batches == UNION {[1..n -> SampleLines] : n \in 1..MaxLines}

NoCall == [resp |-> "none", contacted |-> FALSE, out |-> Return(FALSE),
           state_before |-> "closed"]

\* neither function has been applied on its own
NoPure == [op |-> "none", raw |-> <<>>, cc |-> "", norm |-> <<>>,
           again |-> <<>>, val |-> Return(FALSE)]

Init ==
    /\ pure = NoPure
    /\ lines \in Batches
    /\ idx = 0
    /\ pc = "loop"
    /\ vat_number = <<>>
    /\ output = <<>>
    /\ breaker = BreakerInit
    /\ now = 0
    /\ calls = <<>>
    /\ crashed_by = "none"
    /\ last = NoCall
    /\ consec_fail = 0
    /\ invalid_run = 0
    /\ ncalls = 0

\* the bookkeeping of one call of vies_validation
ViesCall(r, resp) ==
    /\ breaker' = r.breaker
    /\ last' = [resp |-> resp, contacted |-> r.contacted, out |-> r.out,
                state_before |-> BreakerState(breaker, now)]
    /\ consec_fail' = IF ~r.contacted THEN consec_fail
                      ELSE IF resp = "fault" THEN consec_fail + 1 ELSE 0
    /\ invalid_run' = IF ~r.contacted THEN invalid_run
                      ELSE IF resp = "invalid" THEN invalid_run + 1 ELSE 0

ViesEntry(arg, country, resp, r) ==
    [line |-> idx + 1, fn |-> "vies", arg |-> arg, country |-> country,
     resp |-> resp, status |-> 0, out |-> r.out, contacted |-> r.contacted]

AxesorEntry(arg, status, out) ==
    [line |-> idx + 1, fn |-> "axesor", arg |-> arg, country |-> "",
     resp |-> "http", status |-> status, out |-> out, contacted |-> TRUE]

\* writer.write(row) ends the iteration
WriteRow(row) ==
    /\ output' = Append(output, row)
    /\ idx' = idx + 1
    /\ pc' = "loop"
    /\ UNCHANGED crashed_by

\* variant of Propagate: the exception is caught per line, the line is
\* written as not found and the loop goes on
Propagate_Continue(fn) ==
    /\ crashed_by' = fn
    /\ output' = Append(output, NotFoundRow(vat_number))
    /\ idx' = idx + 1
    /\ pc' = "loop"

\* an exception nothing catches leaves the loop and ends the run
Propagate(fn) ==
    /\ pc' = "crashed"
    /\ crashed_by' = fn
    /\ UNCHANGED <<output, idx>>

\* variant of StartLine: the lines are taken from the last to the first
StartLine_Reversed ==
    /\ pc = "loop"
    /\ idx < Len(lines)
    /\ vat_number' = normalize(lines[Len(lines) - idx])
    /\ pc' = IF validate(CountryChars.ES \o vat_number', "ES").value
             THEN "es_vies" ELSE "gb"
    /\ UNCHANGED <<pure, lines, idx, output, breaker, now, calls, crashed_by,
                   last, consec_fail, invalid_run, ncalls>>

\* vat_number = normalize(line); if Validator.validate("ES" + vat_number, "ES")
StartLine ==
    /\ pc = "loop"
    /\ idx < Len(lines)
    /\ vat_number' = normalize(lines[idx + 1])
    /\ pc' = IF validate(CountryChars.ES \o vat_number', "ES").value
             THEN "es_vies" ELSE "gb"
    /\ UNCHANGED <<pure, lines, idx, output, breaker, now, calls, crashed_by, last,
                   consec_fail, invalid_run, ncalls>>

\* variant of EsVies: the fallback is asked whatever VIES returned
EsVies_AlwaysFallback ==
    /\ pc = "es_vies"
    /\ \E resp \in ViesResponses :
         LET arg == CountryChars.ES \o vat_number
             r == vies_validation(breaker, now, resp)
         IN  /\ ViesCall(r, resp)
             /\ calls' = Append(calls, ViesEntry(arg, "ES", resp, r))
             /\ IF r.out.kind = "raise" THEN Propagate("vies_validation")
                ELSE /\ pc' = "es_axesor"
                     /\ UNCHANGED <<output, idx, crashed_by>>
    /\ UNCHANGED <<pure, lines, vat_number, now, ncalls>>

\* result = vies_validation("ES" + vat_number, "ES"); if result is True: write
EsVies ==
    /\ pc = "es_vies"
    /\ \E resp \in ViesResponses :
         LET arg == CountryChars.ES \o vat_number
             r == vies_validation(breaker, now, resp)
         IN  /\ ViesCall(r, resp)
             /\ calls' = Append(calls, ViesEntry(arg, "ES", resp, r))
             /\ IF r.out.kind = "raise" THEN Propagate("vies_validation")
                ELSE IF r.out.value = TRUE
                THEN WriteRow(Row(vat_number, CountryChars.ES, <<>>))
                ELSE /\ pc' = "es_axesor"
                     /\ UNCHANGED <<output, idx, crashed_by>>
    /\ UNCHANGED <<pure, lines, vat_number, now, ncalls>>

\* variant of EsAxesor: the HTTPError of the fallback is counted by the circuit
EsAxesor_CountsFailure ==
    /\ pc = "es_axesor"
    /\ \E status \in Statuses :
         LET r == axesor_validation(status)
         IN  /\ calls' = Append(calls, AxesorEntry(vat_number, status, r))
             /\ IF r.kind = "raise"
                THEN /\ Propagate("axesor_validation")
                     /\ breaker' = call_failed(breaker, now)
                ELSE /\ WriteRow(EsFallbackRow(vat_number, r.value))
                     /\ UNCHANGED breaker
    /\ UNCHANGED <<pure, lines, vat_number, now, last, consec_fail,
                   invalid_run, ncalls>>

\* if axesor_validation(vat_number) is True: write ES, else write ES,Not Found
EsAxesor ==
    /\ pc = "es_axesor"
    /\ \E status \in Statuses :
         LET r == axesor_validation(status)
         IN  /\ calls' = Append(calls, AxesorEntry(vat_number, status, r))
             /\ IF r.kind = "raise" THEN Propagate("axesor_validation")
                ELSE WriteRow(EsFallbackRow(vat_number, r.value))
    /\ UNCHANGED <<pure, lines, vat_number, breaker, now, last, consec_fail,
                   invalid_run, ncalls>>

\* variant of CheckGB: VIES is asked without testing the GB format first
CheckGB_NoFormat ==
    /\ pc = "gb"
    /\ \E resp \in ViesResponses :
         LET r == vies_validation(breaker, now, resp)
         IN  /\ ViesCall(r, resp)
             /\ calls' = Append(calls, ViesEntry(vat_number, "GB", resp, r))
             /\ IF r.out.kind = "raise" THEN Propagate("vies_validation")
                ELSE IF r.out.value
                THEN WriteRow(Row(vat_number, CountryChars.GB, <<>>))
                ELSE /\ pc' = "de"
                     /\ UNCHANGED <<output, idx, crashed_by>>
    /\ UNCHANGED <<pure, lines, vat_number, now, ncalls>>

\* if Validator.validate(vat_number, "GB") and vies_validation(vat_number, "GB")
CheckGB ==
    /\ pc = "gb"
    /\ IF validate(vat_number, "GB").value
       THEN \E resp \in ViesResponses :
              LET r == vies_validation(breaker, now, resp)
              IN  /\ ViesCall(r, resp)
                  /\ calls' = Append(calls, ViesEntry(vat_number, "GB", resp, r))
                  /\ IF r.out.kind = "raise" THEN Propagate("vies_validation")
                     ELSE IF r.out.value
                     THEN WriteRow(Row(vat_number, CountryChars.GB, <<>>))
                     ELSE /\ pc' = "de"
                          /\ UNCHANGED <<output, idx, crashed_by>>
       ELSE /\ pc' = "de"
            /\ UNCHANGED <<output, idx, crashed_by, breaker, calls, last,
                           consec_fail, invalid_run>>
    /\ UNCHANGED <<pure, lines, vat_number, now, ncalls>>

\* elif Validator.validate(vat_number, "DE") and vies_validation(vat_number, "DE")
\* else: write the Not Found row with an empty country
CheckDE ==
    /\ pc = "de"
    /\ IF validate(vat_number, "DE").value
       THEN \E resp \in ViesResponses :
              LET r == vies_validation(breaker, now, resp)
              IN  /\ ViesCall(r, resp)
                  /\ calls' = Append(calls, ViesEntry(vat_number, "DE", resp, r))
                  /\ IF r.out.kind = "raise" THEN Propagate("vies_validation")
                     ELSE IF r.out.value
                     THEN WriteRow(Row(vat_number, CountryChars.DE, <<>>))
                     ELSE WriteRow(NotFoundRow(vat_number))
       ELSE /\ WriteRow(NotFoundRow(vat_number))
            /\ UNCHANGED <<breaker, calls, last, consec_fail, invalid_run>>
    /\ UNCHANGED <<pure, lines, vat_number, now, ncalls>>

\* the for-loop is exhausted: both files are closed and the function returns
Finish ==
    /\ pc = "loop"
    /\ idx = Len(lines)
    /\ pc' = "done"
    /\ UNCHANGED <<pure, lines, idx, vat_number, output, breaker, now, calls,
                   crashed_by, last, consec_fail, invalid_run, ncalls>>

\* TickStep seconds pass on the clock; only vies_validation reads the clock,
\* so the passing of time is observed where a call of it comes next
Tick ==
    /\ pc \in {"es_vies", "gb", "de", "caller"}
    /\ now + TickStep <= MaxTime
    /\ now' = now + TickStep
    /\ UNCHANGED <<pure, lines, idx, pc, vat_number, output, breaker, calls,
                   crashed_by, last, consec_fail, invalid_run, ncalls>>

Next == StartLine \/ EsVies \/ EsAxesor \/ CheckGB \/ CheckDE \/ Finish \/ Tick

Spec == Init /\ [][Next]_vars

-----------------------------------------------------------------------------
(* The checker on its own: vies_validation called again and again by a    *)
(* caller that survives the exceptions it raises, as many times as wanted *)

InitChecker ==
    /\ pure = NoPure
    /\ lines = <<>>
    /\ idx = 0
    /\ pc = "caller"
    /\ vat_number = <<>>
    /\ output = <<>>
    /\ breaker = BreakerInit
    /\ now = 0
    /\ calls = <<>>
    /\ crashed_by = "none"
    /\ last = NoCall
    /\ consec_fail = 0
    /\ invalid_run = 0
    /\ ncalls = 0

DirectCall ==
    /\ pc = "caller"
    /\ ncalls < MaxCalls
    /\ ncalls' = ncalls + 1
    /\ \E resp \in ViesResponses :
         ViesCall(vies_validation(breaker, now, resp), resp)
    /\ UNCHANGED <<pure, lines, idx, pc, vat_number, output, now, calls, crashed_by>>

NextChecker == DirectCall \/ Tick

SpecChecker == InitChecker /\ [][NextChecker]_vars

-----------------------------------------------------------------------------
(* normalize and Validator.validate on their own: one input string and one *)
(* country code, the function applied to them                              *)

\* characters of the generated inputs
InputChars == {"a", "B", "1", " ", "*", "\n"}

BoundedStrings == UNION {[1..n -> InputChars] : n \in 0..MaxStrLen}

\* identifiers in and out of the formats of the registry
FormatSamples ==
    { <<"G", "B", "1", "2", "3", " ", "4", "5", "6", "7", " ", "8", "9">>,
      <<"G", "B", "1", "2", "3", "4", "5", "6", "7", "8", "9">>,
      <<"G", "B", "H", "A", "5", "0", "0">>,
      <<"D", "E", "1", "2", "3", "4", "5", "6", "7", "8", "9">>,
      <<"D", "E", "1", "2", "3", "4", "5", "6", "7", "8">>,
      <<"E", "S", "B", "1", "2", "3", "4", "5", "6", "7", "8">> }

PureInputs == BoundedStrings \cup SampleLines \cup FormatSamples

\* country codes a caller can pass: in the registry and not in it
CountryArgs == {"ES", "GB", "DE", "IT", "XX", "US", "es", ""}

InitPure ==
    /\ pure \in {[NoPure EXCEPT !.raw = r, !.cc = c] :
                    r \in PureInputs, c \in CountryArgs}
    /\ lines = <<>>
    /\ idx = 0
    /\ pc = "pure"
    /\ vat_number = <<>>
    /\ output = <<>>
    /\ breaker = BreakerInit
    /\ now = 0
    /\ calls = <<>>
    /\ crashed_by = "none"
    /\ last = NoCall
    /\ consec_fail = 0
    /\ invalid_run = 0
    /\ ncalls = 0

PureFrame ==
    UNCHANGED <<lines, idx, pc, vat_number, output, breaker, now, calls,
                crashed_by, last, consec_fail, invalid_run, ncalls>>

\* normalize(raw)
ApplyNormalize ==
    /\ pc = "pure"
    /\ pure.op = "none"
    /\ pure' = [pure EXCEPT !.op = "normalize", !.norm = normalize(pure.raw)]
    /\ PureFrame

\* normalize(normalize(raw))
ApplyNormalizeAgain ==
    /\ pc = "pure"
    /\ pure.op = "normalize"
    /\ pure' = [pure EXCEPT !.op = "normalize_twice",
                            !.again = normalize(pure.norm)]
    /\ PureFrame

\* Validator.validate(raw, cc)
ApplyValidate ==
    /\ pc = "pure"
    /\ pure.op = "none"
    /\ pure' = [pure EXCEPT !.op = "validate",
                            !.val = validate(pure.raw, pure.cc)]
    /\ PureFrame

NextPure == ApplyNormalize \/ ApplyNormalizeAgain \/ ApplyValidate

SpecPure == InitPure /\ [][NextPure]_vars

-----------------------------------------------------------------------------
(* Vocabulary of the properties *)

\* the identifier field the row of line i must carry
NormOf(i) == normalize(lines[i])

\* the text of a record <identifier>,<country>,<error> and its line break
Record(id, country, error) ==
    id \o <<",">> \o country \o <<",">> \o error \o <<"\n">>

NotFoundText == <<"N", "o", "t", " ", "F", "o", "u", "n", "d">>
EsText == <<"E", "S">>
GbText == <<"G", "B">>
DeText == <<"D", "E">>

\* line i, prefixed with ES, matches the ES format rule
EsLine(i) == Match(EsText \o NormOf(i), vat_number_regexps.ES)
GbLine(i) == Match(NormOf(i), vat_number_regexps.GB)
DeLine(i) == Match(NormOf(i), vat_number_regexps.DE)

Written(i) == i <= Len(output)

\* the calls of the run made while line i was processed
ViesCalls(i, country) ==
    {k \in DOMAIN calls : /\ calls[k].line = i
                          /\ calls[k].fn = "vies"
                          /\ calls[k].country = country}

AxesorCalls(i) ==
    {k \in DOMAIN calls : calls[k].line = i /\ calls[k].fn = "axesor"}

\* the remote check of line i for the country reported Confirmed / NotFound /
\* Unavailable
Confirmed(i, country) ==
    \E k \in ViesCalls(i, country) : calls[k].out = Return(TRUE)
NotFound(i, country) ==
    \E k \in ViesCalls(i, country) : calls[k].out = Return(FALSE)
Unavailable(i, country) ==
    \E k \in ViesCalls(i, country) : calls[k].out.kind = "raise"

\* the fallback checker is being called, or was called, for line i
FallbackConsulted(i) ==
    \/ pc = "es_axesor" /\ idx + 1 = i
    \/ AxesorCalls(i) # {}

-----------------------------------------------------------------------------
(* C1: a line whose ES-prefixed normalized identifier matches the ES rule  *)
(* and whose remote check reports Confirmed gets, at once, the record      *)
(* <normalized-identifier>,ES, with an empty error and no ES prefix.       *)
C1_ConfirmedEsRow ==
    \A i \in 1..Len(lines) :
        (EsLine(i) /\ Confirmed(i, "ES")) =>
            /\ Written(i)
            /\ output[i] = Record(NormOf(i), EsText, <<>>)

C1_Witness ==
    \E i \in 1..Len(lines) :
        /\ EsLine(i) /\ Confirmed(i, "ES") /\ Written(i)
        /\ NormOf(i) # lines[i]

(* C2: for an ES-format line whose remote check reports NotFound the       *)
(* fallback checker is consulted and decides the record alone: true gives  *)
(* <id>,ES, and false gives <id>,ES,Not Found.                             *)
C2_NotFoundEsRow ==
    \A i \in 1..Len(lines) :
        (EsLine(i) /\ NotFound(i, "ES")) =>
            /\ FallbackConsulted(i)
            /\ \A k \in AxesorCalls(i) :
                 /\ calls[k].out = Return(TRUE) =>
                      Written(i) /\ output[i] = Record(NormOf(i), EsText, <<>>)
                 /\ calls[k].out = Return(FALSE) =>
                      Written(i) /\
                      output[i] = Record(NormOf(i), EsText, NotFoundText)

C2_Witness ==
    \E i, j \in 1..Len(lines) :
        /\ EsLine(i) /\ NotFound(i, "ES") /\ Written(i)
        /\ \E k \in AxesorCalls(i) : calls[k].out = Return(TRUE)
        /\ EsLine(j) /\ NotFound(j, "ES") /\ Written(j)
        /\ \E k \in AxesorCalls(j) : calls[k].out = Return(FALSE)

(* C3 (as claimed): when the remote check of an ES-format line is          *)
(* Unavailable, the run goes on to the fallback checker for that line and  *)
(* is not ended by the remote check.                                       *)
C3_UnavailableAbsorbed ==
    \A i \in 1..Len(lines) :
        (EsLine(i) /\ Unavailable(i, "ES")) =>
            /\ FallbackConsulted(i)
            /\ crashed_by # "vies_validation"

(* C4: for a line that fails the ES rule, GB is evaluated before DE; VIES  *)
(* is asked for a country only when the identifier matches that country's  *)
(* rule; a country is written only with a format match and a Confirmed     *)
(* answer, and the first such country is the one written.                  *)
C4_GbThenDe ==
    /\ \A k \in DOMAIN calls :
         (calls[k].fn = "vies" /\ calls[k].country \in {"GB", "DE"}) =>
            /\ ~EsLine(calls[k].line)
            /\ calls[k].arg = NormOf(calls[k].line)
            /\ Match(calls[k].arg, vat_number_regexps[calls[k].country])
            /\ calls[k].country = "DE" =>
                 \/ ~GbLine(calls[k].line)
                 \/ \E j \in 1..(k - 1) :
                      /\ calls[j].line = calls[k].line
                      /\ calls[j].country = "GB"
                      /\ calls[j].out = Return(FALSE)
    /\ \A i \in 1..Len(output) :
         ~EsLine(i) =>
            /\ (GbLine(i) /\ Confirmed(i, "GB")) =>
                 output[i] = Record(NormOf(i), GbText, <<>>)
            /\ output[i] = Record(NormOf(i), GbText, <<>>) =>
                 GbLine(i) /\ Confirmed(i, "GB")
            /\ output[i] = Record(NormOf(i), DeText, <<>>) =>
                 /\ DeLine(i) /\ Confirmed(i, "DE")
                 /\ ~(GbLine(i) /\ Confirmed(i, "GB"))
            /\ (DeLine(i) /\ Confirmed(i, "DE")) =>
                 output[i] = Record(NormOf(i), DeText, <<>>)
    /\ pc = "de" => ~(GbLine(idx + 1) /\ Confirmed(idx + 1, "GB"))

C4_Witness ==
    \E i, j \in 1..Len(output) :
        /\ ~EsLine(i) /\ output[i] = Record(NormOf(i), GbText, <<>>)
        /\ ~EsLine(j) /\ output[j] = Record(NormOf(j), DeText, <<>>)

C6_OneRecordPerLine ==
    (/\ pc \in {"done", "crashed"}
     /\ \A k \in DOMAIN calls :
          calls[k].fn = "axesor" => calls[k].status \in {200, 302}) =>
        /\ pc = "done"
        /\ Len(output) = Len(lines)

(* C7 (as claimed): after 5 consecutive calls that end in a transport or   *)
(* service failure the circuit is OPEN, and a call made less than 10       *)
(* seconds after the transition is answered without contacting the service *)
C7_OpensAfterFiveFailures ==
    consec_fail >= FAILURE_THRESHOLD =>
        /\ breaker.state = "open"
        /\ now < breaker.opened + RECOVERY_TIMEOUT =>
             \A resp \in ViesResponses :
                ~vies_validation(breaker, now, resp).contacted

(* C9: a call that passes a CLOSED circuit and returns a definitive        *)
(* boolean leaves the failure counter at zero and the circuit CLOSED; the  *)
(* counter never exceeds the number of consecutive transport failures, so  *)
(* the circuit is open only after 5 of them in a row and no number of      *)
(* valid = false answers opens it.                                         *)
C9_BooleanNeverCounts ==
    /\ (/\ last.contacted
        /\ last.resp \in {"valid", "invalid"}
        /\ last.state_before = "closed") =>
          /\ last.out.kind = "return"
          /\ breaker.failure_count = 0
          /\ breaker.state = "closed"
    /\ breaker.failure_count <= consec_fail
    /\ breaker.state = "open" => consec_fail >= FAILURE_THRESHOLD
    /\ invalid_run > 0 => breaker.state = "closed"

C9_Witness ==
    /\ invalid_run >= FAILURE_THRESHOLD
    /\ last.resp = "invalid"
    /\ last.contacted
    /\ breaker.state = "closed"

(* C10: the fallback checker returns false for status 200, true for status *)
(* 302, and for any other status raises HTTPError and returns nothing,     *)
(* which ends the run.                                                     *)
C10_AxesorStatusMap ==
    \A k \in DOMAIN calls :
        calls[k].fn = "axesor" =>
            /\ calls[k].status = 200 => calls[k].out = Return(FALSE)
            /\ calls[k].status = 302 => calls[k].out = Return(TRUE)
            /\ calls[k].status \notin {200, 302} =>
                 /\ calls[k].out = Raise("HTTPError")
                 /\ k = Len(calls)
                 /\ crashed_by = "axesor_validation"
                 /\ ~Written(calls[k].line)

C10_Witness ==
    /\ \E k \in DOMAIN calls : calls[k].fn = "axesor" /\ calls[k].status = 404
    /\ \E k \in DOMAIN calls :
         calls[k].fn = "axesor" /\ calls[k].status \in {200, 302}

-----------------------------------------------------------------------------
(* C11 (as claimed): normalize is idempotent for every input string,       *)
(* normalize(normalize(x)) = normalize(x), also when a line terminator is  *)
(* followed by spaces or * characters.                                     *)
C11_NormalizeIdempotent ==
    pure.op = "normalize_twice" => pure.again = pure.norm

(* C12 (as claimed): for every input string the output of normalize has no *)
(* space, no *, no lower-case letter and does not end with a line          *)
(* terminator.                                                             *)
C12_NormalizedWellFormed ==
    pure.op \in {"normalize", "normalize_twice"} =>
        /\ \A i \in DOMAIN pure.norm :
              /\ pure.norm[i] \notin {" ", "*"}
              /\ pure.norm[i] \notin Range(LowerCase)
        /\ pure.norm # <<>> => pure.norm[Len(pure.norm)] # "\n"

\* the 28 country codes that have a format rule
RegistryCodes ==
    {"AT", "BE", "BG", "CY", "CZ", "DE", "DK", "EE", "EL", "ES", "FI", "FR",
     "GB", "HR", "HU", "IE", "IT", "LT", "LU", "LV", "MT", "NL", "PL", "PT",
     "RO", "SE", "SI", "SK"}

(* C13: validate called with a country code that has no format rule in    *)
(* the 28-entry registry raises an error (KeyError) and returns neither    *)
(* false nor any other value; with a code of the registry it returns.      *)
C13_UnknownCountryRaises ==
    /\ Cardinality(RegistryCodes) = 28
    /\ pure.op = "validate" =>
         IF pure.cc \in RegistryCodes
         THEN pure.val.kind = "return"
         ELSE pure.val = Raise("KeyError")

C13_Witness ==
    /\ pure.op = "validate"
    /\ pure.cc = "XX"
    /\ pure.val.kind = "raise"

-----------------------------------------------------------------------------
(* Reading a written row back: the text after the last comma is the error, *)
(* the text between the last two commas is the country.                    *)

Commas(row) == {i \in DOMAIN row : row[i] = ","}

Max(S) == CHOOSE x \in S : \A y \in S : y <= x

WellFormedRow(row) ==
    /\ row # <<>>
    /\ row[Len(row)] = "\n"
    /\ Cardinality(Commas(row)) >= 2

ErrorOf(row) == SubSeq(row, Max(Commas(row)) + 1, Len(row) - 1)

CountryOf(row) ==
    LET c2 == Max(Commas(row))
        c1 == Max(Commas(row) \ {c2})
    IN  SubSeq(row, c1 + 1, c2 - 1)

IdentifierOf(row) == SubSeq(row, 1, Max(Commas(row) \ {Max(Commas(row))}) - 1)

(* C14: when the fallback checker raises the unexpected-status error the   *)
(* run ends there: no record is written for that line or for a later one,  *)
(* and the records of the earlier lines stay in the output unchanged.      *)
C14_FallbackErrorAborts ==
    /\ [](crashed_by = "axesor_validation" =>
            /\ pc = "crashed"
            /\ calls # <<>>
            /\ calls[Len(calls)].fn = "axesor"
            /\ calls[Len(calls)].out = Raise("HTTPError")
            /\ Len(output) = calls[Len(calls)].line - 1
            /\ Len(output) < Len(lines))
    /\ [][/\ \A i \in 1..Len(output) :
               Len(output') >= i /\ output'[i] = output[i]
          /\ (crashed_by' = "axesor_validation" \/ pc = "crashed") =>
               output' = output]_vars

C14_Witness ==
    /\ crashed_by = "axesor_validation"
    /\ Len(output) = 1
    /\ Len(lines) = 2

(* C15: every call of the fallback checker is made for a line whose        *)
(* ES-prefixed identifier matches the ES rule, directly after a remote     *)
(* check of that same line that returned without reporting Confirmed; it   *)
(* is made at most once per line, never for a line of the GB/DE step and   *)
(* never after a Confirmed answer.                                         *)
C15_FallbackOnlyAfterEsNotConfirmed ==
    \A k \in DOMAIN calls :
        calls[k].fn = "axesor" =>
            /\ EsLine(calls[k].line)
            /\ calls[k].arg = NormOf(calls[k].line)
            /\ k > 1
            /\ calls[k - 1].fn = "vies"
            /\ calls[k - 1].line = calls[k].line
            /\ calls[k - 1].country = "ES"
            /\ calls[k - 1].arg = EsText \o NormOf(calls[k].line)
            /\ calls[k - 1].out # Return(TRUE)
            /\ ~Confirmed(calls[k].line, "ES")
            /\ ViesCalls(calls[k].line, "GB") = {}
            /\ ViesCalls(calls[k].line, "DE") = {}
            /\ Cardinality(AxesorCalls(calls[k].line)) = 1

C15_Witness ==
    \E k \in DOMAIN calls :
        /\ calls[k].fn = "axesor"
        /\ calls[k].out = Return(TRUE)
        /\ Written(calls[k].line)
        /\ \E j \in DOMAIN calls : calls[j].out = Return(TRUE) /\ calls[j].fn = "vies"

(* C16: the state of the circuit is changed only by a call of the remote   *)
(* checker: a step that makes no such call (normalization, format          *)
(* validation, a record written after the fallback, a fallback call, also  *)
(* one that raises) leaves it as it was.                                   *)
C16_BreakerFrame ==
    [][(\/ calls' = calls
        \/ calls'[Len(calls')].fn # "vies") => breaker' = breaker]_vars

C16_Witness ==
    /\ crashed_by = "axesor_validation"
    /\ breaker = BreakerInit
    /\ Len(calls) >= 2

(* C17: at every point of a run, one that stops early included, the        *)
(* records written are those of a prefix of the input lines, the i-th      *)
(* record carries normalize(i-th line) as its identifier, and a remote or  *)
(* fallback call is made for a line only when all lines before it have     *)
(* their record.                                                           *)
C17_SequentialInOrder ==
    /\ [](/\ Len(output) = idx
          /\ idx <= Len(lines)
          /\ \A i \in 1..Len(output) :
               /\ WellFormedRow(output[i])
               /\ IdentifierOf(output[i]) = NormOf(i)
          /\ \A k \in DOMAIN calls :
               /\ calls[k].line <= Len(output) + 1
               /\ calls[k].arg \in {NormOf(calls[k].line),
                                    EsText \o NormOf(calls[k].line)}
               /\ k > 1 => calls[k - 1].line <= calls[k].line)
    /\ [][Len(calls') > Len(calls) =>
            calls'[Len(calls')].line = Len(output) + 1]_vars

C17_Witness ==
    /\ crashed_by = "vies_validation"
    /\ Len(output) = 1
    /\ Len(lines) = 2
    /\ NormOf(1) # NormOf(2)
    /\ Len(calls) >= 2

(* C18: every record written has a country among ES, GB, DE and empty and  *)
(* an error that is empty or "Not Found"; an empty country always comes    *)
(* with "Not Found", GB and DE always with an empty error, so only an ES   *)
(* record can carry a country and "Not Found" together.                    *)
C18_RecordShape ==
    \A i \in 1..Len(output) :
        /\ WellFormedRow(output[i])
        /\ CountryOf(output[i]) \in {EsText, GbText, DeText, <<>>}
        /\ ErrorOf(output[i]) \in {<<>>, NotFoundText}
        /\ CountryOf(output[i]) = <<>> => ErrorOf(output[i]) = NotFoundText
        /\ CountryOf(output[i]) \in {GbText, DeText} => ErrorOf(output[i]) = <<>>

C18_Witness ==
    \E i, j \in 1..Len(output) :
        /\ CountryOf(output[i]) = EsText /\ ErrorOf(output[i]) = NotFoundText
        /\ CountryOf(output[j]) = GbText /\ ErrorOf(output[j]) = <<>>

\* GBGD or GBHA followed by exactly 3 digits
ShortGbForm(s) ==
    /\ Len(s) = 7
    /\ SubSeq(s, 1, 4) \in {<<"G", "B", "G", "D">>, <<"G", "B", "H", "A">>}
    /\ \A i \in 5..7 : s[i] \in Digits

\* the standard numeric GB form: GB and 9 or 12 digits, with or without
\* spaces between them
NumericGb(raw) ==
    LET t == SelectSeq(raw, LAMBDA ch : ch \notin {" ", "\n"})
    IN  /\ Len(t) \in {11, 14}
        /\ t[1] = "G" /\ t[2] = "B"
        /\ \A i \in 3..Len(t) : t[i] \in Digits

(* C19: in the run the GB format test succeeds only for a normalized       *)
(* identifier GBGD or GBHA plus exactly 3 digits; a line in the standard   *)
(* numeric GB form, with or without spaces, is never checked against VIES  *)
(* as GB and never written with country GB.                                *)
C19_NumericGbNeverGb ==
    /\ \A i \in 1..Len(lines) :
         /\ GbLine(i) => ShortGbForm(NormOf(i))
         /\ NumericGb(lines[i]) =>
              /\ ViesCalls(i, "GB") = {}
              /\ Written(i) =>
                   /\ CountryOf(output[i]) = <<>>
                   /\ ErrorOf(output[i]) = NotFoundText
    /\ \A k \in DOMAIN calls :
         calls[k].country = "GB" => ShortGbForm(calls[k].arg)

C19_Witness ==
    \E i, j \in 1..Len(output) :
        /\ NumericGb(lines[i])
        /\ Match(lines[i], vat_number_regexps.GB)
        /\ ~GbLine(i)
        /\ NumericGb(lines[j])
        /\ \A n \in DOMAIN lines[j] : lines[j][n] # " "
        /\ CountryOf(output[i]) = <<>>
        /\ CountryOf(output[j]) = <<>>

====
